---- MODULE Spec2Model ----
(***************************************************************************)
(* train.py of arcface-pytorch: the training driver.  main() selects a     *)
(* loss, a backbone, a head and an optimizer from the strings of the       *)
(* configuration, then runs max_epoch epochs of training batches, one      *)
(* scheduler step, a checkpoint write and validation batches.              *)
(*                                                                         *)
(* Strings that end up in file names are sequences of one-character        *)
(* strings, so that str(), '+' and os.path.join are computed, not assumed. *)
(* Parameter tensors are abstracted to where their values come from (src)  *)
(* and how many optimizer updates they have received (updates); the        *)
(* BatchNorm running statistics of the backbone (buffers) are kept apart   *)
(* from its parameters.                                                    *)
(***************************************************************************)
EXTENDS Integers, Sequences, FiniteSets, TLC

\* ---------------------------------------------------------------- bounds
MaxEpoch == 2
MaxSaveInterval == 2
MaxTrainBatches == 2
MaxValBatches == 2
MaxLrStep == 1

\* ------------------------------------------------- strings of the program
S_resnet18 == <<"r", "e", "s", "n", "e", "t", "1", "8">>
S_resnet34 == <<"r", "e", "s", "n", "e", "t", "3", "4">>
S_resnet50 == <<"r", "e", "s", "n", "e", "t", "5", "0">>
S_resnet101 == <<"r", "e", "s", "n", "e", "t", "1", "0", "1">>
S_metric_fc == <<"m", "e", "t", "r", "i", "c", "_", "f", "c">>
S_fc == <<"f", "c">>
S_pth == <<".", "p", "t", "h">>
S_underscore == <<"_">>
sep == "/"

\* ------------------------------------------------ values of Config fields
\* opt.backbone: the three names main() knows, one it does not, and the
\* name the head is saved under.
Backbones == {S_resnet18, S_resnet34, S_resnet50, S_resnet101, S_metric_fc}
\* opt.metric: the three margin heads and a name main() does not know.
Metrics == {"add_margin", "arc_margin", "sphere", "linear"}
\* opt.loss
Losses == {"focal_loss", "triplet"}
\* opt.optimizer
Optimizers == {"sgd", "rmsprop"}
\* opt.checkpoints_path, without and with a trailing separator
CheckpointPaths == {<<"c", "k">>, <<"c", "k", "/">>}

Configs ==
    [backbone : Backbones, metric : Metrics, loss : Losses,
     optimizer : Optimizers, checkpoints_path : CheckpointPaths,
     max_epoch : 0..MaxEpoch, save_interval : 0..MaxSaveInterval,
     lr_step : 1..MaxLrStep]

\* ------------------------------------------------------ pure helpers
Digits == <<"0", "1", "2", "3", "4", "5", "6", "7", "8", "9">>

\* str(iter_cnt) for a non-negative int: the decimal digits, no padding.
RECURSIVE Str(_)
Str(n) ==
    IF n < 10 THEN <<Digits[n + 1]>>
    ELSE Str(n \div 10) \o <<Digits[(n % 10) + 1]>>

\* os.path.join(a, b) on a POSIX system: an absolute b replaces a; a
\* separator is inserted unless a is empty or already ends with one.
Join(a, b) ==
    IF Len(b) > 0 /\ b[1] = sep THEN b
    ELSE IF Len(a) = 0 \/ a[Len(a)] = sep THEN a \o b
    ELSE a \o <<sep>> \o b

\* save_name = os.path.join(save_path, name + '_' + str(iter_cnt) + '.pth')
\* Variant of SaveName that leaves the epoch index out of the file name.
SaveNameNoEpoch(save_path, name, iter_cnt) ==
    Join(save_path, name \o S_pth)

SaveName(save_path, name, iter_cnt) ==
    Join(save_path, name \o S_underscore \o Str(iter_cnt) \o S_pth)

\* model.state_dict(): the parameters and, for the backbone, the buffers.
StateDict(m) == [params |-> m.params, buffers |-> m.buffers]

\* torch.save(model.state_dict(), save_name): the file at save_name is
\* created or overwritten, every other file is left alone.
TorchSave(fs, state, path) ==
    [p \in (DOMAIN fs) \cup {path} |-> IF p = path THEN state ELSE fs[p]]

\* ---------------------------------------------------------------- state
VARIABLES
    cfg,        \* the configuration as Config() returned it
    opt,        \* the configuration object (main() overwrites opt.metric)
    args,       \* args.train_second
    nTrain,     \* len(trainloader)
    nVal,       \* len(val_loader)
    pc,         \* position of main()
    err,        \* the exception that ended main(), or "none"
    criterion,  \* the loss object
    model,      \* the backbone
    metric_fc,  \* the head
    optimizer,  \* the optimizer
    scheduler,  \* the StepLR scheduler
    i,          \* epoch index of the outer loop
    ii,         \* batch index of the inner loop
    files,      \* the file system: path -> saved state dict
    saves,      \* the save_model calls made, with what each returned
    log,        \* the operations performed, in order
    valStart    \* the trained state when the validation loop was entered

vars == <<cfg, opt, args, nTrain, nVal, pc, err, criterion, model, metric_fc,
          optimizer, scheduler, i, ii, files, saves, log, valStart>>

NoTensor == [src |-> "none", updates |-> 0]

NoModule ==
    [kind |-> "none", training |-> FALSE, requires_grad |-> FALSE,
     grad |-> "None", params |-> NoTensor, buffers |-> NoTensor]

\* A freshly constructed torch.nn.Module: training mode, parameters that
\* require gradient, no gradient yet, randomly initialised values.
NewModule(kind) ==
    [kind |-> kind, training |-> TRUE, requires_grad |-> TRUE,
     grad |-> "None", params |-> [src |-> "init", updates |-> 0],
     buffers |-> [src |-> "init", updates |-> 0]]

NoOptimizer == [kind |-> "none", steps |-> 0, lr_exp |-> 0]

NoScheduler == [last_epoch |-> 0, step_size |-> 1]

Snapshot ==
    [model |-> StateDict(model), metric_fc |-> StateDict(metric_fc),
     lr_exp |-> optimizer.lr_exp, steps |-> optimizer.steps,
     last_epoch |-> scheduler.last_epoch]

NoSnapshot ==
    [model |-> [params |-> NoTensor, buffers |-> NoTensor],
     metric_fc |-> [params |-> NoTensor, buffers |-> NoTensor],
     lr_exp |-> 0, steps |-> 0, last_epoch |-> 0]

Event(op) == [op |-> op, epoch |-> i, training |-> model.training]

\* The state when main() has built the configuration and the two data
\* loaders.  A DataLoader with shuffle=True cannot be built over an empty
\* dataset, so each loader yields at least one batch.
Init ==
    /\ cfg \in Configs
    /\ opt = cfg
    /\ args \in [train_second : BOOLEAN]
    /\ nTrain \in 1..MaxTrainBatches
    /\ nVal \in 1..MaxValBatches
    /\ pc = "criterion"
    /\ err = "none"
    /\ criterion = "none"
    /\ model = NoModule
    /\ metric_fc = NoModule
    /\ optimizer = NoOptimizer
    /\ scheduler = NoScheduler
    /\ i = 0
    /\ ii = 0
    /\ files = <<>>
    /\ saves = <<>>
    /\ log = <<>>
    /\ valStart = NoSnapshot

\* ------------------------------------------------------------ selection
CriterionOf(loss) ==
    IF loss = "focal_loss" THEN "FocalLoss" ELSE "CrossEntropyLoss"

SelectCriterion ==
    /\ pc = "criterion"
    /\ criterion' = CriterionOf(opt.loss)
    /\ pc' = "backbone"
    /\ UNCHANGED <<cfg, opt, args, nTrain, nVal, err, model, metric_fc,
                   optimizer, scheduler, i, ii, files, saves, log, valStart>>

\* Variant of BackboneRecognized that accepts every name.
BackboneAny(backbone) == TRUE

BackboneRecognized(backbone) ==
    backbone \in {S_resnet18, S_resnet34, S_resnet50}

SelectBackbone ==
    /\ pc = "backbone"
    /\ IF BackboneRecognized(opt.backbone)
          THEN /\ model' = NewModule("resnet")
               /\ pc' = "second"
               /\ err' = err
          ELSE /\ model' = model
               /\ pc' = "error"
               /\ err' = "TypeError: not match model type"
    /\ UNCHANGED <<cfg, opt, args, nTrain, nVal, criterion, metric_fc,
                   optimizer, scheduler, i, ii, files, saves, log, valStart>>

\* model.load_state_dict(torch.load(opt.test_model_path))
LoadPretrained(m) ==
    [m EXCEPT !.params = [src |-> "pretrained", updates |-> 0],
              !.buffers = [src |-> "pretrained", updates |-> 0]]

\* Variant of Freeze that leaves requires_grad as it is.
FreezeNothing(m) == m

\* for param in model.parameters(): param.requires_grad = False
Freeze(m) == [m EXCEPT !.requires_grad = FALSE]

\* Module.train() and Module.eval()
SetTraining(m, mode) == [m EXCEPT !.training = mode]

SecondStage ==
    /\ pc = "second"
    /\ IF args.train_second
          THEN /\ opt' = [opt EXCEPT !.metric = "liner"]
               /\ model' = SetTraining(Freeze(LoadPretrained(model)), FALSE)
          ELSE UNCHANGED <<opt, model>>
    /\ pc' = "metric"
    /\ UNCHANGED <<cfg, args, nTrain, nVal, err, criterion, metric_fc,
                   optimizer, scheduler, i, ii, files, saves, log, valStart>>

\* Variant of MetricOf whose default is the arc-margin head.
MetricOfDefaultArc(metric) ==
    IF metric = "add_margin" THEN "AddMarginProduct"
    ELSE IF metric = "sphere" THEN "SphereProduct"
    ELSE "ArcMarginProduct"

MetricOf(metric) ==
    IF metric = "add_margin" THEN "AddMarginProduct"
    ELSE IF metric = "arc_margin" THEN "ArcMarginProduct"
    ELSE IF metric = "sphere" THEN "SphereProduct"
    ELSE "Linear"

SelectMetric ==
    /\ pc = "metric"
    /\ metric_fc' = NewModule(MetricOf(opt.metric))
    /\ pc' = "optimizer"
    /\ UNCHANGED <<cfg, opt, args, nTrain, nVal, err, criterion, model,
                   optimizer, scheduler, i, ii, files, saves, log, valStart>>

OptimizerOf(name) == IF name = "sgd" THEN "SGD" ELSE "Adam"

\* StepLR(optimizer, step_size=opt.lr_step, gamma=0.1): the learning rate
\* is opt.lr * 0.1 ^ (last_epoch // step_size); lr_exp is that exponent.
LrExp(s) == s.last_epoch \div s.step_size

SelectOptimizer ==
    /\ pc = "optimizer"
    /\ optimizer' = [kind |-> OptimizerOf(opt.optimizer), steps |-> 0, lr_exp |-> 0]
    /\ scheduler' = [last_epoch |-> 0, step_size |-> opt.lr_step]
    /\ pc' = "epoch"
    /\ UNCHANGED <<cfg, opt, args, nTrain, nVal, err, criterion, model,
                   metric_fc, i, ii, files, saves, log, valStart>>

\* ------------------------------------------------------- tensor engine
\* feature = model(data_input): a backbone in training mode updates the
\* running statistics of its BatchNorm layers; in evaluation mode the
\* forward pass changes nothing.
ForwardBackbone(m) ==
    IF m.training
       THEN [m EXCEPT !.buffers.updates = @ + 1]
       ELSE m

\* optimizer.zero_grad(): an existing gradient is zeroed, a missing one
\* stays missing.
ZeroGrad(m) == [m EXCEPT !.grad = IF @ = "None" THEN "None" ELSE "zero"]

\* loss.backward(): only parameters that require gradient receive one.
Backward(m) == [m EXCEPT !.grad = IF m.requires_grad THEN "value" ELSE @]

\* optimizer.step() on one parameter group: parameters without gradient
\* are skipped.
StepGroup(m) ==
    IF m.grad = "None" THEN m ELSE [m EXCEPT !.params.updates = @ + 1]

\* metric_fc(feature, label): the margin heads take the label, nn.Linear
\* takes one input only and the call raises TypeError.
HeadCallFails == (~args.train_second) /\ metric_fc.kind = "Linear"

\* ------------------------------------------------------------ save_model
SaveRecord(fs, m, save_name, name, iter_cnt) ==
    LET fs2 == TorchSave(fs, StateDict(m), save_name)
    IN  [name |-> name, iter_cnt |-> iter_cnt, path |-> save_name,
         returned |-> save_name, state |-> StateDict(m),
         changed |-> {p \in DOMAIN fs2 : p \notin DOMAIN fs \/ fs2[p] # fs[p]}]

\* save_model(model, save_path, name, iter_cnt) applied to the file system
\* and the list of calls w = [files, saves].
save_model(w, m, save_path, name, iter_cnt) ==
    LET save_name == SaveName(save_path, name, iter_cnt)
    IN  [files |-> TorchSave(w.files, StateDict(m), save_name),
         saves |-> Append(w.saves,
                          SaveRecord(w.files, m, save_name, name, iter_cnt))]

\* Variant of ShouldSave that tests for the last index of range(max_epoch).
ShouldSaveLast(epoch, save_interval, max_epoch) ==
    epoch % save_interval = 0 \/ epoch = max_epoch - 1

\* if i % opt.save_interval == 0 or i == opt.max_epoch
ShouldSave(epoch, save_interval, max_epoch) ==
    epoch % save_interval = 0 \/ epoch = max_epoch

\* ----------------------------------------------------------- epoch loop
\* for i in range(opt.max_epoch): model.train()
EpochStart ==
    /\ pc = "epoch"
    /\ i < opt.max_epoch
    /\ model' = SetTraining(model, TRUE)
    /\ ii' = 0
    /\ log' = Append(log, Event("model_train"))
    /\ pc' = "train"
    /\ UNCHANGED <<cfg, opt, args, nTrain, nVal, err, criterion, metric_fc,
                   optimizer, scheduler, i, files, saves, valStart>>

\* range(opt.max_epoch) is exhausted: main() returns.
Finish ==
    /\ pc = "epoch"
    /\ i >= opt.max_epoch
    /\ pc' = "done"
    /\ UNCHANGED <<cfg, opt, args, nTrain, nVal, err, criterion, model,
                   metric_fc, optimizer, scheduler, i, ii, files, saves, log,
                   valStart>>

\* One iteration of the training loop.
TrainBatch ==
    /\ pc = "train"
    /\ ii < nTrain
    /\ IF HeadCallFails
          THEN /\ model' = ForwardBackbone(model)
               /\ log' = Append(log, Event("train_forward"))
               /\ pc' = "error"
               /\ err' = "TypeError: forward() takes 2 positional arguments"
               /\ UNCHANGED <<metric_fc, optimizer, ii>>
          ELSE /\ model' = StepGroup(Backward(ZeroGrad(ForwardBackbone(model))))
               /\ metric_fc' = StepGroup(Backward(ZeroGrad(metric_fc)))
               /\ optimizer' = [optimizer EXCEPT !.steps = @ + 1]
               /\ log' = log \o <<Event("train_forward"), Event("zero_grad"),
                                  Event("backward"), Event("optimizer_step")>>
               /\ ii' = ii + 1
               /\ UNCHANGED <<pc, err>>
    /\ UNCHANGED <<cfg, opt, args, nTrain, nVal, criterion, scheduler, i,
                   files, saves, valStart>>

\* Variant of TrainLoopExit that goes to the checkpoint block directly.
TrainLoopExitSkipsScheduler ==
    /\ pc = "train"
    /\ ii = nTrain
    /\ pc' = "save"
    /\ UNCHANGED <<cfg, opt, args, nTrain, nVal, err, criterion, model,
                   metric_fc, optimizer, scheduler, i, ii, files, saves, log,
                   valStart>>

\* The training loader is exhausted: the epoch's summary is printed.
TrainLoopExit ==
    /\ pc = "train"
    /\ ii = nTrain
    /\ pc' = "sched"
    /\ UNCHANGED <<cfg, opt, args, nTrain, nVal, err, criterion, model,
                   metric_fc, optimizer, scheduler, i, ii, files, saves, log,
                   valStart>>

\* scheduler.step()
SchedulerStep ==
    /\ pc = "sched"
    /\ scheduler' = [scheduler EXCEPT !.last_epoch = @ + 1]
    /\ optimizer' = [optimizer EXCEPT !.lr_exp = LrExp(scheduler')]
    /\ log' = Append(log, Event("scheduler_step"))
    /\ pc' = "save"
    /\ UNCHANGED <<cfg, opt, args, nTrain, nVal, err, criterion, model,
                   metric_fc, i, ii, files, saves, valStart>>

\* The checkpoint block of the epoch.
Checkpoint ==
    /\ pc = "save"
    /\ LET w0 == [files |-> files, saves |-> saves]
       IN  IF args.train_second
              THEN LET w1 == save_model(w0, metric_fc, opt.checkpoints_path, S_fc, i)
                   IN  /\ files' = w1.files
                       /\ saves' = w1.saves
                       /\ log' = Append(log, Event("save_model"))
                       /\ pc' = "evalmode"
                       /\ err' = err
           ELSE IF opt.save_interval = 0
              THEN /\ pc' = "error"
                   /\ err' = "ZeroDivisionError: integer division or modulo by zero"
                   /\ UNCHANGED <<files, saves, log>>
           ELSE IF ShouldSave(i, opt.save_interval, opt.max_epoch)
              THEN LET w1 == save_model(w0, model, opt.checkpoints_path, opt.backbone, i)
                       w2 == save_model(w1, metric_fc, opt.checkpoints_path, S_metric_fc, i)
                   IN  /\ files' = w2.files
                       /\ saves' = w2.saves
                       /\ log' = log \o <<Event("save_model"), Event("save_model")>>
                       /\ pc' = "evalmode"
                       /\ err' = err
           ELSE /\ pc' = "evalmode"
                /\ UNCHANGED <<files, saves, log, err>>
    /\ UNCHANGED <<cfg, opt, args, nTrain, nVal, criterion, model, metric_fc,
                   optimizer, scheduler, i, ii, valStart>>

\* Variant of EvalMode without the model.eval() call.
EvalModeSkipped ==
    /\ pc = "evalmode"
    /\ ii' = 0
    /\ valStart' = Snapshot
    /\ log' = Append(log, Event("model_eval"))
    /\ pc' = "val"
    /\ UNCHANGED <<cfg, opt, args, nTrain, nVal, err, criterion, model,
                   metric_fc, optimizer, scheduler, i, files, saves>>

\* model.eval() and the empty validation lists
EvalMode ==
    /\ pc = "evalmode"
    /\ model' = SetTraining(model, FALSE)
    /\ ii' = 0
    /\ valStart' = Snapshot
    /\ log' = Append(log, Event("model_eval"))
    /\ pc' = "val"
    /\ UNCHANGED <<cfg, opt, args, nTrain, nVal, err, criterion, metric_fc,
                   optimizer, scheduler, i, files, saves>>

\* One iteration of the validation loop.
ValBatch ==
    /\ pc = "val"
    /\ ii < nVal
    /\ model' = ForwardBackbone(model)
    /\ log' = Append(log, Event("val_forward"))
    /\ IF HeadCallFails
          THEN /\ pc' = "error"
               /\ err' = "TypeError: forward() takes 2 positional arguments"
               /\ ii' = ii
          ELSE /\ ii' = ii + 1
               /\ UNCHANGED <<pc, err>>
    /\ UNCHANGED <<cfg, opt, args, nTrain, nVal, criterion, metric_fc,
                   optimizer, scheduler, i, files, saves, valStart>>

\* The validation loader is exhausted: the summary is printed and the outer
\* loop moves to the next epoch index.
ValLoopExit ==
    /\ pc = "val"
    /\ ii = nVal
    /\ i' = i + 1
    /\ pc' = "epoch"
    /\ UNCHANGED <<cfg, opt, args, nTrain, nVal, err, criterion, model,
                   metric_fc, optimizer, scheduler, ii, files, saves, log,
                   valStart>>

\* ================================================================ claims
Recognized == {S_resnet18, S_resnet34, S_resnet50}

MarginNames == {"add_margin", "arc_margin", "sphere"}

BackboneError == "TypeError: not match model type"

ModuloError == "ZeroDivisionError: integer division or modulo by zero"

\* The epochs whose checkpoint block has been executed.
PastCheckpoint(e) == e < i \/ (e = i /\ pc \in {"evalmode", "val"})

SavesOf(e) == SelectSeq(saves, LAMBDA s : s.iter_cnt = e)

\* C1: with a backbone name other than 'resnet18', 'resnet34', 'resnet50'
\* main() never gets past the backbone selection, the only way it ends is
\* the TypeError of that selection, and no batch has been processed, no
\* optimizer step taken and no file written.
C1_UnknownBackboneRaises ==
    cfg.backbone \notin Recognized =>
        /\ pc \in {"criterion", "backbone", "error"}
        /\ pc = "error" => err = BackboneError
        /\ pc # "error" => err = "none"
        /\ log = <<>>
        /\ optimizer.steps = 0
        /\ saves = <<>>
        /\ DOMAIN files = {}

C1_Witness ==
    /\ cfg.backbone = S_resnet101
    /\ pc = "error"
    /\ err = BackboneError

\* C2: every save_model call wrote exactly one file, at the path
\* save_path joined with name + '_' + the decimal epoch index + '.pth', and
\* returned that path; two calls of a run that differ in name or in epoch
\* index wrote to different paths, so the run holds one file per call.
C2_SavePath ==
    /\ \A k \in 1..Len(saves) :
         LET s == saves[k]
             base == s.name \o <<"_">> \o Str(s.iter_cnt) \o <<".", "p", "t", "h">>
             dir == opt.checkpoints_path
         IN  /\ s.path = IF dir[Len(dir)] = "/" THEN dir \o base
                         ELSE dir \o <<"/">> \o base
             /\ s.returned = s.path
             /\ s.changed = {s.path}
             /\ s.path \in DOMAIN files
    /\ \A k1, k2 \in 1..Len(saves) :
         (saves[k1].name # saves[k2].name \/ saves[k1].iter_cnt # saves[k2].iter_cnt)
             => saves[k1].path # saves[k2].path
    /\ Cardinality(DOMAIN files) = Len(saves)
    /\ DOMAIN files = {saves[k].path : k \in 1..Len(saves)}

C2_Witness ==
    /\ Len(saves) = 4
    /\ saves[1].name # saves[2].name
    /\ saves[1].iter_cnt = saves[2].iter_cnt
    /\ saves[1].name = saves[3].name
    /\ saves[1].iter_cnt # saves[3].iter_cnt
    /\ Cardinality(DOMAIN files) = 4

\* C3: a run with a recognized backbone ends only by returning from main(),
\* after max_epoch epochs, with max_epoch * len(trainloader) optimizer
\* steps and max_epoch * len(val_loader) validation batches.
C3_RunCompletes ==
    (cfg.backbone \in Recognized /\ pc \in {"done", "error"}) =>
        /\ pc = "done"
        /\ i = cfg.max_epoch
        /\ optimizer.steps = cfg.max_epoch * nTrain
        /\ Len(SelectSeq(log, LAMBDA e : e.op = "val_forward")) = cfg.max_epoch * nVal

\* C4: in second-stage mode, from the end of the freezing block on, the
\* backbone parameters do not require gradient and are the loaded
\* pretrained values, whatever the number of optimizer steps; each
\* optimizer step has updated the parameters of the head.
C4_BackboneFrozen ==
    (args.train_second /\ pc \in {"metric", "optimizer", "epoch", "train", "sched",
                                  "save", "evalmode", "val", "done"}) =>
        /\ model.requires_grad = FALSE
        /\ model.grad = "None"
        /\ model.params = [src |-> "pretrained", updates |-> 0]
        /\ metric_fc.params.updates = optimizer.steps

C4_Witness ==
    /\ args.train_second
    /\ pc = "done"
    /\ optimizer.steps >= 2
    /\ metric_fc.params.updates >= 2
    /\ model.params = [src |-> "pretrained", updates |-> 0]

\* C5: before the epoch loop the only error is the TypeError of an
\* unrecognized backbone; any loss name other than 'focal_loss' selects the
\* cross-entropy loss, any optimizer name other than 'sgd' selects Adam, any
\* metric name other than the three margin heads selects the linear head,
\* and in second-stage mode the head is linear whatever metric was
\* configured.
C5_Fallbacks ==
    /\ (pc = "error" /\ log = <<>>) =>
           (err = BackboneError /\ cfg.backbone \notin Recognized)
    /\ criterion # "none" =>
           criterion = IF cfg.loss = "focal_loss" THEN "FocalLoss"
                       ELSE "CrossEntropyLoss"
    /\ metric_fc.kind # "none" =>
           /\ args.train_second => metric_fc.kind = "Linear"
           /\ cfg.metric \notin MarginNames => metric_fc.kind = "Linear"
           /\ (~args.train_second /\ cfg.metric \in MarginNames) =>
                  metric_fc.kind # "Linear"
    /\ optimizer.kind # "none" =>
           optimizer.kind = IF cfg.optimizer = "sgd" THEN "SGD" ELSE "Adam"

C5_Witness ==
    /\ args.train_second
    /\ cfg.metric = "arc_margin"
    /\ metric_fc.kind = "Linear"
    /\ cfg.loss = "triplet"
    /\ criterion = "CrossEntropyLoss"
    /\ cfg.optimizer = "rmsprop"
    /\ optimizer.kind = "Adam"
    /\ err = "none"
    /\ pc = "epoch"

\* The phase of an operation within its epoch.
Rank(op) ==
    CASE op = "model_train" -> 1
      [] op \in {"train_forward", "zero_grad", "backward", "optimizer_step"} -> 2
      [] op = "scheduler_step" -> 3
      [] op = "save_model" -> 4
      [] op = "model_eval" -> 5
      [] op = "val_forward" -> 6

CountOps(op, e) == Len(SelectSeq(log, LAMBDA x : x.op = op /\ x.epoch = e))

\* The epochs whose training loop has been left normally.
PastTraining(e) ==
    \/ e < i
    \/ e = i /\ pc \in {"sched", "save", "evalmode", "val"}
    \/ e = i /\ pc = "error" /\ err = ModuloError

\* The epochs whose scheduler step has been executed (a modulo by zero in
\* the checkpoint block comes after it).
PastScheduler(e) ==
    \/ e < i
    \/ e = i /\ pc \in {"save", "evalmode", "val"}
    \/ e = i /\ pc = "error" /\ err = ModuloError

\* C6: the operations of a run are ordered by epoch and, within an epoch,
\* by phase: training batches, scheduler step, checkpoint writes,
\* validation batches (the order of neighbours gives the order of all
\* pairs).  A training batch is forward, zero_grad, backward, optimizer
\* step.  An epoch has at most one scheduler step, exactly one once its
\* training loop is over, and that step comes after all len(trainloader)
\* optimizer steps of the epoch.
C6_PhaseOrder ==
    /\ \A k \in 1..(Len(log) - 1) :
         \/ log[k].epoch < log[k + 1].epoch
         \/ /\ log[k].epoch = log[k + 1].epoch
            /\ Rank(log[k].op) <= Rank(log[k + 1].op)
            /\ ~(log[k].op = "scheduler_step" /\ log[k + 1].op = "scheduler_step")
    /\ \A k \in 1..Len(log) :
         /\ log[k].op = "zero_grad" => (k > 1 /\ log[k - 1].op = "train_forward")
         /\ log[k].op = "backward" => (k > 1 /\ log[k - 1].op = "zero_grad")
         /\ log[k].op = "optimizer_step" => (k > 1 /\ log[k - 1].op = "backward")
         /\ log[k].op = "scheduler_step" => (k > 1 /\ log[k - 1].op = "optimizer_step")
    /\ \A e \in 0..i :
         /\ CountOps("scheduler_step", e) = IF PastScheduler(e) THEN 1 ELSE 0
         /\ PastTraining(e) => CountOps("optimizer_step", e) = nTrain
         /\ e < i => CountOps("val_forward", e) = nVal
    /\ scheduler.last_epoch = Len(SelectSeq(log, LAMBDA x : x.op = "scheduler_step"))

C6_Witness ==
    /\ pc = "done"
    /\ i = 2
    /\ nTrain = 2
    /\ nVal = 2
    /\ Len(saves) >= 2
    /\ CountOps("scheduler_step", 1) = 1
    /\ CountOps("val_forward", 1) = 2

\* C7: in normal mode an epoch whose checkpoint block has run has written
\* the backbone (under the backbone name) and then the head (under
\* 'metric_fc'), both with the epoch index, exactly when
\* i % save_interval == 0 or i == max_epoch, and nothing under 'fc'; in
\* second-stage mode such an epoch has written exactly one file, under 'fc'
\* with the epoch index, whatever save_interval is.  No other epoch has
\* written anything.
C7_CheckpointFiles ==
    /\ \A k \in 1..Len(saves) : PastCheckpoint(saves[k].iter_cnt)
    /\ \A e \in 0..i :
         PastCheckpoint(e) =>
             IF args.train_second
                THEN /\ Len(SavesOf(e)) = 1
                     /\ SavesOf(e)[1].name = S_fc
                ELSE /\ cfg.save_interval # 0
                     /\ IF e % cfg.save_interval = 0 \/ e = cfg.max_epoch
                           THEN /\ Len(SavesOf(e)) = 2
                                /\ SavesOf(e)[1].name = cfg.backbone
                                /\ SavesOf(e)[2].name = S_metric_fc
                           ELSE Len(SavesOf(e)) = 0
    /\ \A k \in 1..Len(saves) :
         IF args.train_second
            THEN saves[k].name = S_fc
            ELSE saves[k].name \in {cfg.backbone, S_metric_fc} /\ saves[k].name # S_fc

C7_Witness ==
    /\ ~args.train_second
    /\ pc = "done"
    /\ cfg.max_epoch = 2
    /\ cfg.save_interval = 2
    /\ Len(SavesOf(0)) = 2
    /\ Len(SavesOf(1)) = 0

\* C8: a normal-mode run with max_epoch >= 1 and save_interval >= 1 that
\* has returned has written the backbone and the head of its last epoch,
\* max_epoch - 1.
C8_LastEpochSaved ==
    (~args.train_second /\ pc = "done" /\ cfg.max_epoch >= 1 /\ cfg.save_interval >= 1) =>
        /\ \E k \in 1..Len(saves) :
             saves[k].iter_cnt = cfg.max_epoch - 1 /\ saves[k].name = cfg.backbone
        /\ \E k \in 1..Len(saves) :
             saves[k].iter_cnt = cfg.max_epoch - 1 /\ saves[k].name = S_metric_fc

\* C9: in second-stage mode every forward pass through the backbone, in
\* training batches and in validation batches, finds it in evaluation mode.
C9_FrozenBackboneInEval ==
    args.train_second =>
        \A k \in 1..Len(log) :
            log[k].op \in {"train_forward", "val_forward"} => ~log[k].training

\* C10: from the first validation batch of an epoch to the start of the
\* next epoch the backbone is in evaluation mode, no optimizer or scheduler
\* step has occurred, the parameters and buffers of backbone and head and
\* the learning rate are those the validation started with, and the files
\* written in this epoch hold exactly those parameters.
InValidation == pc = "val" \/ (pc \in {"epoch", "done"} /\ i > 0)

ValEpoch == IF pc = "val" THEN i ELSE i - 1

C10_ValidationFrame ==
    InValidation =>
        /\ ~model.training
        /\ Snapshot = valStart
        /\ \A k \in 1..Len(saves) :
             saves[k].iter_cnt = ValEpoch =>
                 /\ files[saves[k].path] =
                        IF saves[k].name \in {S_metric_fc, S_fc}
                           THEN StateDict(metric_fc) ELSE StateDict(model)
                 /\ files[saves[k].path] =
                        IF saves[k].name \in {S_metric_fc, S_fc}
                           THEN valStart.metric_fc ELSE valStart.model

C10_Witness ==
    /\ pc = "epoch"
    /\ i = 1
    /\ nVal = 2
    /\ ~args.train_second
    /\ Len(SavesOf(0)) = 2
    /\ model.buffers.updates >= 1
    /\ optimizer.lr_exp = 1
    /\ CountOps("val_forward", 0) = 2

Next ==
    \/ SelectCriterion
    \/ SelectBackbone
    \/ SecondStage
    \/ SelectMetric
    \/ SelectOptimizer
    \/ EpochStart
    \/ Finish
    \/ TrainBatch
    \/ TrainLoopExit
    \/ SchedulerStep
    \/ Checkpoint
    \/ EvalMode
    \/ ValBatch
    \/ ValLoopExit

Spec == Init /\ [][Next]_vars
====
